---- MODULE Spec2Model ----
(***************************************************************************)
(* Model of the institution matching service of roracle-splitful:          *)
(* app/services/institution_service.py (normalize, tokenize, the name      *)
(* index built by load_data, lookup_institution, process_query), the       *)
(* evaluation of app/services/test_service.py (load_tests, run_tests,      *)
(* calculate_metrics), the handlers of app/main.py that call them, and the *)
(* threaded fetch_openalex_ids of download_ror_data.py.                    *)
(*                                                                         *)
(* A string is a sequence of characters; a character is a one-character    *)
(* TLA+ string, except the two accented letters "e'" (e acute) and "E'"    *)
(* (E acute), which stand for the single code points U+00E9 and U+00C9.    *)
(***************************************************************************)
EXTENDS Integers, Sequences, FiniteSets, TLC

VARIABLES
    text,                       \* argument of the string function under check
    out,                        \* its result
    pc,                         \* "idle", "start", "normalized", "tokenized"
    csv_file,                   \* the registry file on disk: status, columns, rows
    pydantic_coerces,           \* build: the installed pydantic turns a float into a str
    normalized_name_to_ror_id,  \* InstitutionService.normalized_name_to_ror_id
    ror_id_to_record,           \* InstitutionService.ror_id_to_record
    data_loaded,                \* InstitutionService.data_loaded
    builds,                     \* history: number of runs of the body of load_data
    load_calls,                 \* history: number of direct calls of load_data
    loaded_from,                \* history: the branch of load_data that built the index
    results,                    \* history: the QueryResult of every call of a query handler
    last_lookup,                \* history: argument and result of the last lookup_institution
    test_run,                   \* history: request and response of the last run_tests handler
    fetch_args,                 \* fetch_openalex_ids: ror_ids, max_retries, max_workers
    rate_limiter,               \* fetch_openalex_ids: the tokens of the RateLimiter
    counter,                    \* fetch_openalex_ids: the count of the Counter
    failed_batches,             \* fetch_openalex_ids: failed_batches
    found_count,                \* fetch_openalex_ids: found_count
    ror_to_openalex,            \* fetch_openalex_ids: ror_to_openalex
    batch_call,                 \* the locals of each call of process_batch and its position
    executor                    \* the main thread: its position and the futures it has taken

vars == <<text, out, pc, csv_file, pydantic_coerces, normalized_name_to_ror_id,
          ror_id_to_record, data_loaded, builds, load_calls, loaded_from, results,
          last_lookup, test_run, fetch_args, rate_limiter, counter, failed_batches,
          found_count, ror_to_openalex, batch_call, executor>>

(***************************************************************************)
(* Characters: the classes the Python string methods and the re module use *)
(***************************************************************************)
AsciiUpper == <<"A", "B", "C", "D", "E", "F", "G", "H", "I", "J", "K", "L", "M", "N", "O", "P", "Q", "R", "S", "T", "U", "V", "W", "X", "Y", "Z">>
AsciiLower == <<"a", "b", "c", "d", "e", "f", "g", "h", "i", "j", "k", "l", "m", "n", "o", "p", "q", "r", "s", "t", "u", "v", "w", "x", "y", "z">>
AsciiDigit == <<"0", "1", "2", "3", "4", "5", "6", "7", "8", "9">>

Range(s) == {s[i] : i \in DOMAIN s}

\* [A-Z] of the acronym pattern
IsAsciiUpper(c) == c \in Range(AsciiUpper)

\* str.isspace, and \s of re on str patterns
IsSpace(c) == c \in {" ", "\t", "\n"}

\* cased characters, as str.isupper and str.lower see them
IsUpperChar(c) == IsAsciiUpper(c) \/ c = "E'"
IsLowerChar(c) == c \in Range(AsciiLower) \/ c = "e'"

\* \w of re on str patterns: alphanumerics and the underscore
IsWordChar(c) ==
    IsUpperChar(c) \/ IsLowerChar(c) \/ c \in Range(AsciiDigit) \/ c = "_"

\* str.lower on one character
LowerChar(c) ==
    IF c = "E'" THEN "e'"
    ELSE IF IsAsciiUpper(c)
         THEN AsciiLower[CHOOSE i \in DOMAIN AsciiUpper : AsciiUpper[i] = c]
         ELSE c

\* unidecode on one character: ASCII is kept, an accented letter becomes its
\* base letter
UnidecodeChar(c) ==
    IF c = "E'" THEN <<"E">> ELSE IF c = "e'" THEN <<"e">> ELSE <<c>>

(***************************************************************************)
(* Sequence helpers for the str and re operations                          *)
(***************************************************************************)
\* x in ids
Contains(ids, x) == \E i \in DOMAIN ids : ids[i] = x

RECURSIVE Flatten(_)
Flatten(ss) == IF ss = <<>> THEN <<>> ELSE Head(ss) \o Flatten(Tail(ss))

RECURSIVE LStrip(_)
LStrip(s) ==
    IF s # <<>> /\ IsSpace(Head(s)) THEN LStrip(Tail(s)) ELSE s

RECURSIVE RStrip(_)
RStrip(s) ==
    IF s # <<>> /\ IsSpace(s[Len(s)]) THEN RStrip(SubSeq(s, 1, Len(s) - 1)) ELSE s

\* str.strip()
Strip(s) == RStrip(LStrip(s))

\* re.sub(r'\s+', ' ', text)
RECURSIVE CollapseWhitespace(_)
CollapseWhitespace(s) ==
    IF s = <<>> THEN <<>>
    ELSE IF IsSpace(Head(s))
         THEN <<" ">> \o CollapseWhitespace(LStrip(s))
         ELSE <<Head(s)>> \o CollapseWhitespace(Tail(s))

\* length of the longest prefix of s without a whitespace character
RECURSIVE WordLen(_)
WordLen(s) ==
    IF s = <<>> \/ IsSpace(Head(s)) THEN 0 ELSE 1 + WordLen(Tail(s))

\* str.split(): the maximal runs of non-whitespace characters
RECURSIVE SplitWords(_)
SplitWords(s) ==
    LET t == LStrip(s)
        n == WordLen(t)
    IN  IF t = <<>> THEN <<>>
        ELSE <<SubSeq(t, 1, n)>> \o SplitWords(SubSeq(t, n + 1, Len(t)))

\* ' '.join(words)
RECURSIVE JoinWords(_)
JoinWords(ws) ==
    IF ws = <<>> THEN <<>>
    ELSE IF Len(ws) = 1 THEN ws[1]
    ELSE ws[1] \o <<" ">> \o JoinWords(Tail(ws))

\* mutant: a word counts as uppercase only when all its characters are
\* uppercase letters
IsAllUppercaseLetters(w) ==
    w # <<>> /\ \A i \in DOMAIN w : IsUpperChar(w[i])

\* str.isupper(): at least one cased character and no lowercase one
IsUpper(w) ==
    /\ \E i \in DOMAIN w : IsUpperChar(w[i])
    /\ \A i \in DOMAIN w : ~IsLowerChar(w[i])

\* str.lower()
Lower(w) == [i \in DOMAIN w |-> LowerChar(w[i])]

\* re.sub(r'[^\w\s]', '', text)
RemovePunctuation(s) == SelectSeq(s, LAMBDA c : IsWordChar(c) \/ IsSpace(c))

\* unidecode(text)
Unidecode(s) == Flatten([i \in DOMAIN s |-> UnidecodeChar(s[i])])

(***************************************************************************)
(* InstitutionService.normalize                                            *)
(***************************************************************************)
LowercaseWords(s) ==
    LET words == SplitWords(s)
    IN  JoinWords([i \in DOMAIN words |->
                     IF IsUpper(words[i]) THEN words[i] ELSE Lower(words[i])])

normalize(t) ==
    IF t = <<>> THEN <<>>
    ELSE Unidecode(RemovePunctuation(LowercaseWords(Strip(CollapseWhitespace(t)))))

(***************************************************************************)
(* InstitutionService.tokenize                                             *)
(***************************************************************************)
\* length of the longest prefix of s made of [A-Z]
RECURSIVE UpperRunLen(_)
UpperRunLen(s) ==
    IF s = <<>> \/ ~IsAsciiUpper(Head(s)) THEN 0 ELSE 1 + UpperRunLen(Tail(s))

\* \b holds between positions i-1 and i of s
WordBoundary(s, i) ==
    LET before == i > 1 /\ IsWordChar(s[i - 1])
        after  == i <= Len(s) /\ IsWordChar(s[i])
    IN  before # after

\* re.findall(r'\b[A-Z]{2,}\b', s), scanning from position i
RECURSIVE FindUppercaseWords(_, _)
FindUppercaseWords(s, i) ==
    IF i > Len(s) THEN <<>>
    ELSE LET n == UpperRunLen(SubSeq(s, i, Len(s)))
         IN  IF n >= 2 /\ WordBoundary(s, i) /\ WordBoundary(s, i + n)
             THEN <<SubSeq(s, i, i + n - 1)>> \o FindUppercaseWords(s, i + n)
             ELSE FindUppercaseWords(s, i + 1)

IsPrefix(w, s) == Len(w) <= Len(s) /\ SubSeq(s, 1, Len(w)) = w

\* mutant: only the first occurrence is replaced
RECURSIVE ReplaceFirst(_, _, _)
ReplaceFirst(s, w, r) ==
    IF s = <<>> THEN <<>>
    ELSE IF IsPrefix(w, s)
         THEN r \o SubSeq(s, Len(w) + 1, Len(s))
         ELSE <<Head(s)>> \o ReplaceFirst(Tail(s), w, r)

\* str.replace(w, r): every occurrence, left to right, without overlap
RECURSIVE Replace(_, _, _)
Replace(s, w, r) ==
    IF s = <<>> THEN <<>>
    ELSE IF IsPrefix(w, s)
         THEN r \o Replace(SubSeq(s, Len(w) + 1, Len(s)), w, r)
         ELSE <<Head(s)>> \o Replace(Tail(s), w, r)

\* number of characters of s before its first ")", Len(s) when it has none
RECURSIVE UntilClose(_)
UntilClose(s) ==
    IF s = <<>> \/ Head(s) = ")" THEN 0 ELSE 1 + UntilClose(Tail(s))

\* re.findall(r'\(([^)]+)\)', s), scanning from position i
RECURSIVE FindParentheses(_, _)
FindParentheses(s, i) ==
    IF i > Len(s) THEN <<>>
    ELSE LET n == UntilClose(SubSeq(s, i + 1, Len(s)))
         IN  IF s[i] = "(" /\ n >= 1 /\ i + n + 1 <= Len(s)
             THEN <<SubSeq(s, i + 1, i + n)>> \o FindParentheses(s, i + n + 2)
             ELSE FindParentheses(s, i + 1)

\* the characters of [,;–—\-]
IsDelimiter(c) == c \in {",", ";", "en-dash", "em-dash", "-"}

RECURSIVE UntilDelimiter(_)
UntilDelimiter(s) ==
    IF s = <<>> \/ IsDelimiter(Head(s)) THEN 0 ELSE 1 + UntilDelimiter(Tail(s))

\* re.split(delimiter_pattern, s)
RECURSIVE SplitDelimiters(_)
SplitDelimiters(s) ==
    LET n == UntilDelimiter(s)
    IN  IF n = Len(s) THEN <<s>>
        ELSE <<SubSeq(s, 1, n)>> \o SplitDelimiters(SubSeq(s, n + 2, Len(s)))

\* mutant: the two characters of the acronym pattern are the threshold
MinTokenLenTwo == Len(<<"A", "B">>)

MinTokenLen == 3

\* the loop over uppercase_words: st is [tokens, remaining_text]
RECURSIVE ExtractUppercase(_, _)
ExtractUppercase(words, st) ==
    IF words = <<>> THEN st
    ELSE LET word == Head(words)
         IN  ExtractUppercase(Tail(words),
                 IF Len(word) >= MinTokenLen
                 THEN [tokens |-> Append(st.tokens, word),
                       remaining_text |-> Replace(st.remaining_text, word, <<" ">>)]
                 ELSE st)

\* the loop over parentheses_matches
RECURSIVE ExtractParentheses(_, _)
ExtractParentheses(matches, st) ==
    IF matches = <<>> THEN st
    ELSE LET match == Head(matches)
         IN  ExtractParentheses(Tail(matches),
                 IF Len(match) >= MinTokenLen
                 THEN [tokens |-> Append(st.tokens, match),
                       remaining_text |->
                           Replace(st.remaining_text, <<"(">> \o match \o <<")">>, <<" ">>)]
                 ELSE st)

\* the loop over parts
RECURSIVE KeepParts(_)
KeepParts(parts) ==
    IF parts = <<>> THEN <<>>
    ELSE LET part == Strip(Head(parts))
         IN  (IF Len(part) >= MinTokenLen THEN <<part>> ELSE <<>>)
                 \o KeepParts(Tail(parts))

\* the three phases of tokenize, kept apart: acronyms, parentheticals, rest
TokenizePhases(t) ==
    LET s0 == [tokens |-> <<>>, remaining_text |-> t]
        s1 == ExtractUppercase(FindUppercaseWords(t, 1), s0)
        s2 == ExtractParentheses(FindParentheses(s1.remaining_text, 1),
                                 [tokens |-> <<>>, remaining_text |-> s1.remaining_text])
    IN  [acronyms |-> s1.tokens,
         parentheticals |-> s2.tokens,
         remainder |-> KeepParts(SplitDelimiters(s2.remaining_text)),
         after_acronyms |-> s1.remaining_text,
         after_parentheses |-> s2.remaining_text]

\* the tokens without the repetitions of a token
RECURSIVE WithoutRepeats(_)
WithoutRepeats(tokens) ==
    IF tokens = <<>> THEN <<>>
    ELSE LET before == WithoutRepeats(SubSeq(tokens, 1, Len(tokens) - 1))
             last == tokens[Len(tokens)]
         IN  IF Contains(before, last) THEN before ELSE Append(before, last)

\* mutant: a token is returned once, however often it was found
tokenize_deduplicated(t) ==
    LET ph == TokenizePhases(t)
    IN  WithoutRepeats(SelectSeq(ph.acronyms \o ph.parentheticals \o ph.remainder,
                                 LAMBDA token : Len(token) >= MinTokenLen))

tokenize(t) ==
    LET ph == TokenizePhases(t)
    IN  SelectSeq(ph.acronyms \o ph.parentheticals \o ph.remainder,
                  LAMBDA token : Len(token) >= MinTokenLen)

(***************************************************************************)
(* The registry file read by load_data.  pandas.read_csv yields NaN for an  *)
(* empty cell; a column the file does not have is absent from every row,   *)
(* and the code then reads None.                                           *)
(***************************************************************************)
None == "None"              \* None, for the id cells
NaN == "nan"                \* float NaN, for the id cells
NoneStr == <<"None">>       \* None, for the name cells
NaNStr == <<"NaN">>         \* float NaN, for the name cells

Columns == {"id", "openalex_id", "display_name", "acronyms", "names"}

Cell(row, col, columns) ==
    IF col \in columns THEN row[col]
    ELSE IF col \in {"id", "openalex_id"} THEN None ELSE NoneStr

\* truth value of a cell: None and the empty string are false, NaN is true
TruthyId(x) == x \notin {None, ""}
TruthyStr(x) == x \notin {NoneStr, <<>>}

\* pd.notna
NotNa(x) == x \notin {NaNStr, NoneStr}

RECURSIVE UntilPipe(_)
UntilPipe(s) ==
    IF s = <<>> \/ Head(s) = "|" THEN 0 ELSE 1 + UntilPipe(Tail(s))

\* str.split('|')
RECURSIVE SplitPipe(_)
SplitPipe(s) ==
    LET n == UntilPipe(s)
    IN  IF n = Len(s) THEN <<s>>
        ELSE <<SubSeq(s, 1, n)>> \o SplitPipe(SubSeq(s, n + 2, Len(s)))

EmptyIndex == [k \in {} |-> <<>>]
EmptyRecords == [k \in {} |-> <<>>]

MinNameLen == 3

(***************************************************************************)
(* InstitutionService._add_normalized_name_to_lookup                       *)
(***************************************************************************)
\* mutant: the id is appended without the membership test
_add_without_dedup(index, name, ror_id) ==
    IF name = <<>> \/ Len(name) < MinNameLen THEN index
    ELSE LET normalized_name == normalize(name)
             ids == IF normalized_name \in DOMAIN index
                    THEN index[normalized_name] ELSE <<>>
         IN  (normalized_name :> Append(ids, ror_id)) @@ index

_add_normalized_name_to_lookup(index, name, ror_id) ==
    IF name = <<>> \/ Len(name) < MinNameLen THEN index
    ELSE LET normalized_name == normalize(name)
             ids == IF normalized_name \in DOMAIN index
                    THEN index[normalized_name] ELSE <<>>
         IN  (normalized_name :>
                 (IF Contains(ids, ror_id) THEN ids ELSE Append(ids, ror_id)))
             @@ index

\* the loop over alternate_names of load_data
RECURSIVE AddAlternateNames(_, _, _)
AddAlternateNames(index, alternate_names, ror_id) ==
    IF alternate_names = <<>> THEN index
    ELSE LET alt_name == Head(alternate_names)
         IN  AddAlternateNames(
                 IF alt_name # <<>> /\ Len(alt_name) >= MinNameLen
                 THEN _add_normalized_name_to_lookup(index, alt_name, ror_id)
                 ELSE index,
                 Tail(alternate_names), ror_id)

RorUrl(ror_id) == <<"https://ror.org/", ror_id>>

\* the alternate names load_data collects from the acronyms and names cells
AlternateNames(row, columns) ==
    LET acronyms == Cell(row, "acronyms", columns)
        names == Cell(row, "names", columns)
    IN  (IF "acronyms" \in columns /\ NotNa(acronyms) THEN SplitPipe(acronyms) ELSE <<>>)
        \o (IF "names" \in columns /\ NotNa(names) THEN SplitPipe(names) ELSE <<>>)

\* Institution(...) raises for a field that is not a str, unless the
\* installed pydantic coerces a float to a str ("nan")
InstitutionRaises(openalex_id, display_name, coerces) ==
    (openalex_id = NaN \/ display_name = NaNStr) /\ ~coerces

(***************************************************************************)
(* One pass of the row loop of load_data; st is [index, records]           *)
(***************************************************************************)
ProcessRow(st, row, columns, coerces) ==
    LET ror_id == Cell(row, "id", columns)
        openalex_id == Cell(row, "openalex_id", columns)
        display_name == Cell(row, "display_name", columns)
        alternate_names == AlternateNames(row, columns)
        institution == [id |-> openalex_id,
                        name |-> IF display_name = NaNStr THEN <<"n", "a", "n">> ELSE display_name,
                        ror |-> RorUrl(ror_id),
                        alternate_names |-> alternate_names]
        stored == (ror_id :> institution) @@ st.records
    IN  IF ~TruthyId(ror_id) \/ ~TruthyId(openalex_id) \/ ~TruthyStr(display_name)
        THEN st
        ELSE IF InstitutionRaises(openalex_id, display_name, coerces)
        THEN st
        ELSE IF display_name = NaNStr
        THEN \* len(name) raises on the float after the record was stored
             [index |-> st.index, records |-> stored]
        ELSE [index |-> AddAlternateNames(
                            _add_normalized_name_to_lookup(st.index, display_name, ror_id),
                            alternate_names, ror_id),
              records |-> stored]

RECURSIVE ProcessRows(_, _, _, _)
ProcessRows(st, rows, columns, coerces) ==
    IF rows = <<>> THEN st
    ELSE ProcessRows(ProcessRow(st, Head(rows), columns, coerces),
                     Tail(rows), columns, coerces)

\* the placeholder written when the file does not exist
SampleInstitution ==
    [id |-> "https://openalex.org/I123456789",
     name |-> <<"S", "a", "m", "p", "l", "e", " ", "U", "n", "i", "v", "e", "r", "s", "i", "t", "y">>,
     ror |-> RorUrl("sample123"),
     alternate_names |-> <<<<"S", "U">>, <<"S", "a", "m", "p", "l", "e", " ", "U", "n", "i", "v">>>>]

\* the placeholder written when reading the file raises
FallbackInstitution ==
    [id |-> "https://openalex.org/I987654321",
     name |-> <<"F", "a", "l", "l", "b", "a", "c", "k", " ", "U", "n", "i", "v", "e", "r", "s", "i", "t", "y">>,
     ror |-> RorUrl("fallback123"),
     alternate_names |-> <<<<"F", "U">>, <<"F", "a", "l", "l", "b", "a", "c", "k", " ", "U", "n", "i", "v">>>>]

\* mutant: the placeholder's names are indexed but its record is not stored
PlaceholderUnrecorded(st, inst, ror_id) ==
    [index |-> _add_normalized_name_to_lookup(
                   _add_normalized_name_to_lookup(
                       _add_normalized_name_to_lookup(st.index, inst.name, ror_id),
                       inst.alternate_names[1], ror_id),
                   inst.alternate_names[2], ror_id),
     records |-> st.records]

Placeholder(st, inst, ror_id) ==
    [index |-> _add_normalized_name_to_lookup(
                   _add_normalized_name_to_lookup(
                       _add_normalized_name_to_lookup(st.index, inst.name, ror_id),
                       inst.alternate_names[1], ror_id),
                   inst.alternate_names[2], ror_id),
     records |-> (ror_id :> inst) @@ st.records]

\* which branch of load_data runs on the file
LoadBranch(file) ==
    IF file.status = "missing" THEN "sample"
    ELSE IF file.status = "unreadable" THEN "fallback"
    ELSE "rows"

(***************************************************************************)
(* InstitutionService.load_data.  svc is the service's fields [index,      *)
(* records, data_loaded]; the result adds built (the body ran) and branch. *)
(***************************************************************************)
Service(index, records, loaded) ==
    [index |-> index, records |-> records, data_loaded |-> loaded]

Loaded(st, branch) ==
    [index |-> st.index, records |-> st.records, data_loaded |-> TRUE,
     built |-> TRUE, branch |-> branch]

\* the body of load_data below the data_loaded guard
BuildIndex(svc, file, coerces) ==
    IF LoadBranch(file) = "sample"
    THEN Loaded(Placeholder(svc, SampleInstitution, "sample123"), "sample")
    ELSE IF LoadBranch(file) = "fallback"
    THEN Loaded(Placeholder(svc, FallbackInstitution, "fallback123"), "fallback")
    ELSE Loaded(ProcessRows([index |-> svc.index, records |-> svc.records],
                            file.rows, file.columns, coerces), "rows")

\* the fields of svc, left as they are
Untouched(svc) ==
    [index |-> svc.index, records |-> svc.records, data_loaded |-> svc.data_loaded,
     built |-> FALSE, branch |-> "none"]

\* mutant: load_data without its data_loaded guard
load_data_unguarded(svc, file, coerces) == BuildIndex(svc, file, coerces)

load_data(svc, file, coerces) ==
    IF svc.data_loaded THEN Untouched(svc) ELSE BuildIndex(svc, file, coerces)

(***************************************************************************)
(* InstitutionService.find_geonames.  The extractor (flashgeotext) is a    *)
(* library outside the repository: it is a fixed function of the text,     *)
(* modelled as the names of a small gazetteer that occur in the text.      *)
(***************************************************************************)
IsSubstring(w, s) ==
    \E i \in 0..(Len(s) - Len(w)) : SubSeq(s, i + 1, i + Len(w)) = w

Gazetteer == <<<<"U", "l", "m">>, <<"B", "o", "n", "n">>>>

find_geonames(t) == SelectSeq(Gazetteer, LAMBDA g : IsSubstring(g, t))

(***************************************************************************)
(* InstitutionService.lookup_institution                                   *)
(***************************************************************************)
\* the records of the ids that have one, in the order of ids
RECURSIVE RecordsOf(_, _)
RecordsOf(records, ids) ==
    IF ids = <<>> THEN <<>>
    ELSE (IF Head(ids) \in DOMAIN records THEN <<records[Head(ids)]>> ELSE <<>>)
             \o RecordsOf(records, Tail(ids))

\* mutant: the comparison keeps the case of both strings
MatchesGeonameCaseSensitive(institution, geonames) ==
    \E i \in DOMAIN geonames : IsSubstring(geonames[i], institution.name)

\* some geoname occurs in the display name, ignoring case
MatchesGeoname(institution, geonames) ==
    \E i \in DOMAIN geonames : IsSubstring(Lower(geonames[i]), Lower(institution.name))

Disambiguate(records, ids, geonames) ==
    SelectSeq(RecordsOf(records, ids), LAMBDA inst : MatchesGeoname(inst, geonames))

\* mutant: a normalized token of exactly the minimum length is skipped too
TooShortOffByOne(normalized_token) == Len(normalized_token) <= MinTokenLen

\* the token is too short to be looked up
TooShort(normalized_token) == Len(normalized_token) < MinTokenLen

\* mutant: any non-empty filter result counts as a resolution
ResolvedByAny(geonames, disambiguated) ==
    geonames # <<>> /\ Len(disambiguated) >= 1

\* the geonames single out one candidate
Resolved(geonames, disambiguated) ==
    geonames # <<>> /\ Len(disambiguated) = 1

\* mutant: the token is looked up as it is, without normalize
lookup_institution_raw(index, records, token, geonames) ==
    LET normalized_token == token
        matching_ror_ids == IF normalized_token \in DOMAIN index
                            THEN index[normalized_token] ELSE <<>>
        disambiguated == Disambiguate(records, matching_ror_ids, geonames)
    IN  IF TooShort(normalized_token)
        THEN [institutions |-> <<>>, is_unique |-> FALSE]
        ELSE IF matching_ror_ids = <<>>
        THEN [institutions |-> <<>>, is_unique |-> FALSE]
        ELSE IF Len(matching_ror_ids) = 1
        THEN [institutions |-> RecordsOf(records, matching_ror_ids), is_unique |-> TRUE]
        ELSE IF Resolved(geonames, disambiguated)
        THEN [institutions |-> disambiguated, is_unique |-> TRUE]
        ELSE [institutions |-> RecordsOf(records, matching_ror_ids), is_unique |-> FALSE]

lookup_institution(index, records, token, geonames) ==
    LET normalized_token == normalize(token)
        matching_ror_ids == IF normalized_token \in DOMAIN index
                            THEN index[normalized_token] ELSE <<>>
        disambiguated == Disambiguate(records, matching_ror_ids, geonames)
    IN  IF TooShort(normalized_token)
        THEN [institutions |-> <<>>, is_unique |-> FALSE]
        ELSE IF matching_ror_ids = <<>>
        THEN [institutions |-> <<>>, is_unique |-> FALSE]
        ELSE IF Len(matching_ror_ids) = 1
        THEN [institutions |-> RecordsOf(records, matching_ror_ids), is_unique |-> TRUE]
        ELSE IF Resolved(geonames, disambiguated)
        THEN [institutions |-> disambiguated, is_unique |-> TRUE]
        ELSE [institutions |-> RecordsOf(records, matching_ror_ids), is_unique |-> FALSE]

(***************************************************************************)
(* InstitutionService.process_query, after the index is ensured            *)
(***************************************************************************)
MatchesOfToken(index, records, token, geonames) ==
    LET r == lookup_institution(index, records, token, geonames)
    IN  [i \in DOMAIN r.institutions |->
            [token |-> token,
             institution |-> r.institutions[i],
             is_token_unique |-> r.is_unique]]

\* mutant: an institution that an earlier token matched is not matched again
RECURSIVE MatchesOfTokensDistinct(_, _, _, _)
MatchesOfTokensDistinct(index, records, tokens, geonames) ==
    IF tokens = <<>> THEN <<>>
    ELSE LET before == MatchesOfTokensDistinct(index, records,
                           SubSeq(tokens, 1, Len(tokens) - 1), geonames)
             found == MatchesOfToken(index, records, tokens[Len(tokens)], geonames)
         IN  before \o SelectSeq(found, LAMBDA match :
                           \A k \in DOMAIN before :
                               before[k].institution # match.institution)

RECURSIVE MatchesOfTokens(_, _, _, _)
MatchesOfTokens(index, records, tokens, geonames) ==
    IF tokens = <<>> THEN <<>>
    ELSE MatchesOfToken(index, records, Head(tokens), geonames)
             \o MatchesOfTokens(index, records, Tail(tokens), geonames)

QueryResult(index, records, query) ==
    LET geonames == find_geonames(query)
    IN  [query |-> query,
         geonames |-> geonames,
         matches |-> MatchesOfTokens(index, records, tokenize(query), geonames)]

\* mutant: the query is answered without ensuring that the index is loaded
process_query_unloaded(svc, file, coerces, query) ==
    [svc |-> Untouched(svc),
     result |-> QueryResult(svc.index, svc.records, query)]

\* result is the QueryResult, svc the service's fields after the call
process_query(svc, file, coerces, query) ==
    LET ready == IF ~svc.data_loaded
                 THEN load_data(svc, file, coerces)
                 ELSE Untouched(svc)
    IN  [svc |-> ready,
         result |-> QueryResult(ready.index, ready.records, query)]

(***************************************************************************)
(* TestService (app/services/test_service.py).  A test specification and   *)
(* an expected entity are dicts: functions whose domain holds the keys     *)
(* that are present.                                                       *)
(***************************************************************************)
\* dict.get(key, default)
Get(dict, key, default) == IF key \in DOMAIN dict THEN dict[key] ELSE default

\* mutant: the sheet is filtered before the request is known to have failed
load_tests_unchecked(tests, fetch, sheet, dataset) ==
    SelectSeq(sheet, LAMBDA record : record.dataset = dataset)

\* TestService.load_tests: the test sheet is fetched anew; when the request
\* fails, or the sheet lacks the dataset column, the exception is caught and
\* self.tests stays as it was
load_tests(tests, fetch, sheet, dataset) ==
    IF fetch = "ok"
    THEN SelectSeq(sheet, LAMBDA record : record.dataset = dataset)
    ELSE tests

\* expected_ids: the ids of the entities that have a non-empty one
ExpectedIds(expected_entities) ==
    SelectSeq([i \in DOMAIN expected_entities |-> Get(expected_entities[i], "id", None)],
              TruthyId)

\* found_ids
FoundIds(matches) == [i \in DOMAIN matches |-> matches[i].institution.id]

\* mutant: the counts are compared and the ids are not
IsPassingCountOnly(expected_ids, found_ids) == Len(found_ids) = Len(expected_ids)

\* mutant: the test passes when every expected id was found
IsPassingWithoutCount(expected_ids, found_ids) ==
    \A i \in DOMAIN expected_ids : Contains(found_ids, expected_ids[i])

IsPassing(expected_ids, found_ids) ==
    /\ \A i \in DOMAIN expected_ids : Contains(found_ids, expected_ids[i])
    /\ Len(found_ids) = Len(expected_ids)

CorrectMatches(matches, expected_ids) ==
    SelectSeq(matches, LAMBDA match : Contains(expected_ids, match.institution.id))

\* mutant: the else is missing, every match is appended to overmatched
OvermatchedWithoutElse(matches, expected_ids) == matches

Overmatched(matches, expected_ids) ==
    SelectSeq(matches, LAMBDA match : ~Contains(expected_ids, match.institution.id))

\* mutant: the placeholder carries the id and none of the other fields
EntityInstitutionIdOnly(entity) ==
    [id |-> Get(entity, "id", None), name |-> <<>>, ror |-> <<>>,
     alternate_names |-> <<>>]

\* the Institution built from an expected entity
EntityInstitution(entity) ==
    [id |-> Get(entity, "id", None),
     name |-> Get(entity, "name", <<>>),
     ror |-> Get(entity, "ror", <<>>),
     alternate_names |-> Get(entity, "alternate_names", <<>>)]

\* mutant: every expected entity with an id is listed, found or not
UndermatchedAll(expected_entities, found_ids) ==
    LET missing == SelectSeq(expected_entities,
                             LAMBDA entity : TruthyId(Get(entity, "id", None)))
    IN  [i \in DOMAIN missing |-> EntityInstitution(missing[i])]

Undermatched(expected_entities, found_ids) ==
    LET missing == SelectSeq(expected_entities,
                             LAMBDA entity : /\ TruthyId(Get(entity, "id", None))
                                             /\ ~Contains(found_ids, Get(entity, "id", None)))
    IN  [i \in DOMAIN missing |-> EntityInstitution(missing[i])]

\* one pass of the loop of run_tests, on the QueryResult of the test's query
TestOutcome(test_spec, query_result) ==
    LET expected_entities == Get(test_spec, "expected_entities", <<>>)
        expected_ids == ExpectedIds(expected_entities)
        found_ids == FoundIds(query_result.matches)
    IN  [id |-> Get(test_spec, "id", ""),
         query |-> Get(test_spec, "query", <<>>),
         is_passing |-> IsPassing(expected_ids, found_ids),
         results |-> [correct |-> CorrectMatches(query_result.matches, expected_ids),
                      overmatched |-> Overmatched(query_result.matches, expected_ids),
                      undermatched |-> Undermatched(expected_entities, found_ids)]]

\* the loop of run_tests: st is [svc, built, branch, results]
RECURSIVE RunEach(_, _, _, _)
RunEach(st, file, coerces, tests_to_run) ==
    IF tests_to_run = <<>> THEN st
    ELSE LET test_spec == Head(tests_to_run)
             r == process_query(st.svc, file, coerces, Get(test_spec, "query", <<>>))
         IN  RunEach([svc |-> Service(r.svc.index, r.svc.records, r.svc.data_loaded),
                      built |-> st.built \/ r.svc.built,
                      branch |-> IF r.svc.built THEN r.svc.branch ELSE st.branch,
                      results |-> Append(st.results, TestOutcome(test_spec, r.result))],
                     file, coerces, Tail(tests_to_run))

\* TestService.run_tests: the tests of the request, or else the loaded ones
run_tests(svc, file, coerces, test_specs, tests) ==
    RunEach([svc |-> svc, built |-> FALSE, branch |-> "none", results |-> <<>>],
            file, coerces, IF test_specs # <<>> THEN test_specs ELSE tests)

\* a quotient n / d of two naturals, kept as the pair; 0 is 0 / 1
Zero == [num |-> 0, den |-> 1]

\* mutant: a quotient without positives counts as perfect
QuotientOrOne(n, d) == IF d > 0 THEN [num |-> n, den |-> d] ELSE [num |-> 1, den |-> 1]

\* n / d if d > 0 else 0
QuotientOrZero(n, d) == IF d > 0 THEN [num |-> n, den |-> d] ELSE Zero

\* the loop of calculate_metrics: the sum of the sizes of one of the lists
RECURSIVE Count(_, _)
Count(test_results, list) ==
    IF test_results = <<>> THEN 0
    ELSE Len(Head(test_results).results[list]) + Count(Tail(test_results), list)

\* TestService.calculate_metrics
calculate_metrics(test_results) ==
    LET true_positives == Count(test_results, "correct")
        false_positives == Count(test_results, "overmatched")
        false_negatives == Count(test_results, "undermatched")
    IN  [precision |-> QuotientOrZero(true_positives, true_positives + false_positives),
         recall |-> QuotientOrZero(true_positives, true_positives + false_negatives)]

\* the response of the run_tests handler of main.py, without its timing
TestResult(test_results) ==
    LET total_tests == Len(test_results)
        passing_tests == Len(SelectSeq(test_results, LAMBDA test : test.is_passing))
        metrics == calculate_metrics(test_results)
    IN  [meta |-> [total |-> total_tests,
                   passing |-> passing_tests,
                   failing |-> total_tests - passing_tests,
                   percentage_passing |->
                       IF total_tests > 0
                       THEN [num |-> passing_tests * 100, den |-> total_tests]
                       ELSE Zero,
                   precision |-> metrics.precision,
                   recall |-> metrics.recall],
         results |-> test_results]

(***************************************************************************)
(* Bounded sets of input strings                                           *)
(***************************************************************************)
RECURSIVE StringsUpTo(_, _)
StringsUpTo(alphabet, n) ==
    IF n = 0 THEN {<<>>}
    ELSE LET shorter == StringsUpTo(alphabet, n - 1)
         IN  shorter \cup {Append(s, c) : s \in shorter, c \in alphabet}

MaxNormLen == 4
NormAlphabet == {" ", "\t", "a", "A", "1", ".", "E'"}
NormInputs == StringsUpTo(NormAlphabet, MaxNormLen)

MaxTokLen == 5
TokAlphabet == {"A", "B", "a", " ", "(", ")", ","}
TokExamples == {<<"E", "x", "a", "m", "p", "l", "e", " ", "U", "n", "i", "v", "e", "r", "s", "i", "t", "y", " ", "(", "E", "U", ")">>, <<"N", "A", "S", "A", " ", "A", "m", "e", "s", " ", "R", "e", "s", "e", "a", "r", "c", "h", " ", "C", "e", "n", "t", "e", "r">>, <<"A", "B", "C", " ", "a", "A", "B", "C", "a">>, <<"a", "b", "c", ",", " ", "A", "B", "C", " ", "(", "a", "b", "c", ")", " ", "A", "B", "C", ",", " ", "a", "b", "c">>}
TokInputs == StringsUpTo(TokAlphabet, MaxTokLen) \cup TokExamples

(***************************************************************************)
(* Bounded inputs of the service                                           *)
(***************************************************************************)
MaxRows == 2            \* rows of a registry file of SpecLoad
MaxLookupRows == 2      \* rows of a registry file of SpecLookup
MaxQueryRows == 1       \* rows of a registry file of Spec
MaxQueries == 2         \* process_query calls of one run
MaxLoadCalls == 2       \* direct load_data calls of one run

Row(id, openalex_id, display_name, acronyms, names) ==
    [id |-> id, openalex_id |-> openalex_id, display_name |-> display_name,
     acronyms |-> acronyms, names |-> names]

RowUlm == Row("r1", "I1", <<"U", "l", "m", " ", "U">>, <<"U", "U", "|", "U", "L", "M">>, NaNStr)
RowBonn == Row("r2", "I2", <<"B", "o", "n", "n", " ", "U">>, NaNStr, <<"U", "L", "M", "|", "U", "l", "m", " ", "U">>)
RowShort1 == Row("r1", "I1", <<"a", ".", "b">>, NaNStr, NaNStr)
RowShort2 == Row("r2", "I2", <<"a", "b", ".">>, NaNStr, <<"a", ".", "b">>)
RowNoId == Row(NaN, "I1", <<"U", "l", "m", " ", "U">>, NaNStr, NaNStr)
RowNoOpenalex == Row("r2", NaN, <<"B", "o", "n", "n", " ", "U">>, <<"U", "L", "M">>, NaNStr)
RowNoName == Row("r1", "I1", NaNStr, <<"U", "L", "M">>, NaNStr)

LookupRows == {RowUlm, RowBonn, RowShort1, RowShort2}
QueryRows == {RowUlm, RowBonn}
RowSet == LookupRows \cup {RowNoId, RowNoOpenalex, RowNoName}

RECURSIVE RowSeqs(_, _)
RowSeqs(rows, n) ==
    IF n = 0 THEN {<<>>}
    ELSE LET shorter == RowSeqs(rows, n - 1)
         IN  shorter \cup {Append(rs, r) : rs \in {x \in shorter : Len(x) = n - 1},
                                           r \in rows}

\* a header without a required column, and one without the optional ones
PartialColumnSets == {Columns \ {"openalex_id"}, Columns \ {"acronyms", "names"}}

File(status, columns, rows) == [status |-> status, columns |-> columns, rows |-> rows]

\* readable files of up to n rows, no file, and a file read_csv cannot read
FilesOver(rows, n) ==
    {File("ok", Columns, rs) : rs \in RowSeqs(rows, n)}
        \cup {File("missing", Columns, <<>>), File("unreadable", Columns, <<>>)}

Files ==
    FilesOver(RowSet, MaxRows)
        \cup {File("ok", cs, <<r>>) : cs \in PartialColumnSets, r \in RowSet}

Queries == {<<"U", "L", "M", ",", " ", "B", "o", "n", "n", " ", "U">>, <<"U", "l", "m", " ", "U", " ", "(", "a", ".", "b", ")">>, <<"U", "L", "M", " ", "-", " ", "U", "L", "M">>}

LookupTokens == {<<"U", "L", "M">>, <<"U", "l", "m", " ", "U">>, <<"a", ".", "b">>, <<"x", "y", "z">>}

GeonameLists == {<<>>, <<<<"U", "L", "M">>>>, <<<<"U", "l", "m">>, <<"B", "o", "n", "n">>>>, <<<<"a", "b">>>>}

\* the registry row and the queries of the documented end-to-end example
RowExample == Row("abc123", "I1", <<"E", "x", "a", "m", "p", "l", "e", " ", "U", "n", "i", "v", "e", "r", "s", "i", "t", "y">>, <<"E", "U">>, NaNStr)
RowSpringfield == Row("r2", "I2", <<"S", "p", "r", "i", "n", "g", "f", "i", "e", "l", "d", " ", "C", "o", "l", "l", "e", "g", "e">>, <<"S", "F", "C">>, NaNStr)

ExampleRows == {RowExample, RowSpringfield}

ExampleQueries == {<<"E", "x", "a", "m", "p", "l", "e", " ", "U", "n", "i", "v", "e", "r", "s", "i", "t", "y", ",", " ", "S", "p", "r", "i", "n", "g", "f", "i", "e", "l", "d">>, <<"S", "a", "m", "p", "l", "e", " ", "U", "n", "i", "v", ",", " ", "F", "a", "l", "l", "b", "a", "c", "k", " ", "U", "n", "i", "v", "e", "r", "s", "i", "t", "y">>, <<"E", "U", " ", "-", " ", "E", "x", "a", "m", "p", "l", "e", " ", "U", "n", "i", "v", "e", "r", "s", "i", "t", "y">>}

\* expected entities of the test specifications: with every field, with an
\* id only, without an id, and with an empty id
EntityUlm == [id |-> "I1", name |-> <<"U", "l", "m", " ", "U">>, ror |-> RorUrl("r1"), alternate_names |-> <<<<"U", "L", "M">>>>]
EntityBonn == [id |-> "I2"]
EntityNoId == [name |-> <<"N", "o", " ", "I", "d">>]
EntityEmptyId == [id |-> "", name |-> <<"E", "m", "p", "t", "y">>]

TestSpec(id, query, expected_entities) ==
    [id |-> id, query |-> query, expected_entities |-> expected_entities]

TestSpecs ==
    {TestSpec("t1", <<"U", "L", "M", ",", " ", "U", "l", "m", " ", "U">>, <<EntityUlm>>),
     TestSpec("t2", <<"U", "L", "M", ",", " ", "U", "l", "m", " ", "U">>, <<EntityUlm, EntityUlm>>),
     TestSpec("t3", <<"B", "o", "n", "n", " ", "U">>, <<EntityBonn>>),
     TestSpec("t4", <<"B", "o", "n", "n", " ", "U">>, <<EntityBonn, EntityEmptyId, EntityNoId>>),
     TestSpec("t5", <<"x", "y", "z">>, <<>>),
     TestSpec("t6", <<"B", "o", "n", "n", " ", "U">>, <<EntityUlm>>),
     TestSpec("t7", <<"U", "L", "M", " ", "-", " ", "U", "L", "M">>, <<EntityUlm>>),
     TestSpec("t8", <<"B", "o", "n", "n", " ", "U">>, <<EntityNoId>>),
     TestSpec("t9", <<"U", "L", "M">>, <<EntityUlm, EntityUlm>>),
     [expected_entities |-> <<EntityUlm>>]}

MaxTests == 2           \* test specifications of one request

TestLists == RowSeqs(TestSpecs, MaxTests)

\* the published test sheet, as read_csv and to_dict('records') give it
Sheet == <<[dataset |-> "d1", id |-> "s1", query |-> <<"B", "o", "n", "n", " ", "U">>], [dataset |-> "d2", id |-> "s2", query |-> <<"U", "L", "M">>], [dataset |-> "d1", id |-> "s3", query |-> <<"U", "L", "M", ",", " ", "U", "l", "m", " ", "U">>]>>

Datasets == {"d1", "none"}

FetchOutcomes == {"ok", "failed", "no_dataset_column"}

TestFiles ==
    {File("ok", Columns, <<RowUlm>>), File("ok", Columns, <<RowBonn>>),
     File("ok", Columns, <<RowUlm, RowBonn>>), File("missing", Columns, <<>>)}

NoTestRun ==
    [called |-> FALSE, fetch |-> "none", dataset |-> "none", request_tests |-> <<>>,
     tests |-> <<>>, response |-> [meta |-> <<>>, results |-> <<>>]]

NoLookup ==
    [called |-> FALSE, loaded |-> FALSE, token |-> <<>>, geonames |-> <<>>,
     institutions |-> <<>>, is_unique |-> FALSE]

(***************************************************************************)
(* Initial states                                                          *)
(***************************************************************************)
TextIdle == text = <<>> /\ out = <<>> /\ pc = "idle"

\* the service after InstitutionService.__init__, beside a registry file
ServiceInit(files, builds_of_pydantic) ==
    /\ csv_file \in files
    /\ pydantic_coerces \in builds_of_pydantic
    /\ normalized_name_to_ror_id = EmptyIndex
    /\ ror_id_to_record = EmptyRecords
    /\ data_loaded = FALSE
    /\ builds = 0
    /\ load_calls = 0
    /\ loaded_from = "none"
    /\ results = <<>>
    /\ last_lookup = NoLookup
    /\ test_run = NoTestRun

serviceVars == <<csv_file, pydantic_coerces, normalized_name_to_ror_id, ror_id_to_record,
                 data_loaded, builds, load_calls, loaded_from, results, last_lookup,
                 test_run>>
textVars == <<text, out, pc>>
fetchVars == <<fetch_args, rate_limiter, counter, failed_batches, found_count,
               ror_to_openalex, batch_call, executor>>

\* download_ror_data.py is a script of its own: the service never calls it
FetchIdle ==
    /\ fetch_args = [ror_ids |-> <<>>, max_retries |-> 0, max_workers |-> 0]
    /\ rate_limiter = [tokens |-> 0]
    /\ counter = [count |-> 0]
    /\ failed_batches = <<>>
    /\ found_count = 0
    /\ ror_to_openalex = <<>>
    /\ batch_call = <<>>
    /\ executor = [at |-> "idle", taken |-> {}]

\* the file in which two institutions share names
SharedNamesFile == File("ok", Columns, <<RowUlm, RowBonn>>)

Init ==
    /\ TextIdle
    /\ ServiceInit(FilesOver(QueryRows, MaxQueryRows) \cup {SharedNamesFile}, {FALSE})
    /\ FetchIdle

Self == Service(normalized_name_to_ror_id, ror_id_to_record, data_loaded)

(***************************************************************************)
(* Actions of the service.  The handlers of main.py are coroutines on one  *)
(* event loop; load_data and process_query contain no suspension point     *)
(* (await self.load_data() runs the coroutine to its end), so each call    *)
(* runs to completion before another handler runs.                         *)
(***************************************************************************)
\* the service's fields become those of svc
Becomes(svc) ==
    /\ normalized_name_to_ror_id' = svc.index
    /\ ror_id_to_record' = svc.records
    /\ data_loaded' = svc.data_loaded
    /\ builds' = IF svc.built THEN builds + 1 ELSE builds
    /\ loaded_from' = IF svc.built THEN svc.branch ELSE loaded_from

\* startup_event, or any direct call of load_data
LoadData ==
    /\ load_calls < MaxLoadCalls
    /\ load_calls' = load_calls + 1
    /\ \E svc \in {load_data(Self, csv_file, pydantic_coerces)} : Becomes(svc)
    /\ UNCHANGED <<csv_file, pydantic_coerces, results, last_lookup>>
    /\ UNCHANGED textVars
    /\ UNCHANGED fetchVars
    /\ UNCHANGED test_run

\* get_institutions: one process_query call
GetInstitutions(query) ==
    /\ Len(results) < MaxQueries
    /\ \E r \in {process_query(Self, csv_file, pydantic_coerces, query)} :
           /\ Becomes(r.svc)
           /\ results' = Append(results, r.result)
    /\ UNCHANGED <<csv_file, pydantic_coerces, load_calls, last_lookup>>
    /\ UNCHANGED textVars
    /\ UNCHANGED fetchVars
    /\ UNCHANGED test_run

\* post_institutions with a batch of two queries, processed one after the other
PostInstitutions(q1, q2) ==
    /\ Len(results) + 2 <= MaxQueries
    /\ \E r1 \in {process_query(Self, csv_file, pydantic_coerces, q1)} :
       \E r2 \in {process_query(Service(r1.svc.index, r1.svc.records,
                                        r1.svc.data_loaded),
                                csv_file, pydantic_coerces, q2)} :
           /\ normalized_name_to_ror_id' = r2.svc.index
           /\ ror_id_to_record' = r2.svc.records
           /\ data_loaded' = r2.svc.data_loaded
           /\ builds' = builds + (IF r1.svc.built THEN 1 ELSE 0)
                               + (IF r2.svc.built THEN 1 ELSE 0)
           /\ loaded_from' = IF r2.svc.built THEN r2.svc.branch
                             ELSE IF r1.svc.built THEN r1.svc.branch ELSE loaded_from
           /\ results' = results \o <<r1.result, r2.result>>
    /\ UNCHANGED <<csv_file, pydantic_coerces, load_calls, last_lookup>>
    /\ UNCHANGED textVars
    /\ UNCHANGED fetchVars
    /\ UNCHANGED test_run

\* a direct call of lookup_institution
Lookup(token, geonames) ==
    /\ \E r \in {lookup_institution(normalized_name_to_ror_id, ror_id_to_record,
                                     token, geonames)} :
           last_lookup' = [called |-> TRUE, loaded |-> data_loaded, token |-> token,
                           geonames |-> geonames, institutions |-> r.institutions,
                           is_unique |-> r.is_unique]
    /\ UNCHANGED <<csv_file, pydantic_coerces, normalized_name_to_ror_id,
                   ror_id_to_record, data_loaded, builds, load_calls, loaded_from,
                   results>>
    /\ UNCHANGED textVars
    /\ UNCHANGED fetchVars
    /\ UNCHANGED test_run

\* environment: the registry file is deleted or damaged while the service runs
FileLost(status) ==
    /\ csv_file.status = "ok"
    /\ csv_file' = File(status, csv_file.columns, csv_file.rows)
    /\ UNCHANGED <<pydantic_coerces, normalized_name_to_ror_id, ror_id_to_record,
                   data_loaded, builds, load_calls, loaded_from, results, last_lookup>>
    /\ UNCHANGED textVars
    /\ UNCHANGED fetchVars
    /\ UNCHANGED test_run

\* the run_tests handler of main.py: a new TestService loads the sheet, runs
\* the tests and the response is assembled.  Every call starts from a new
\* TestService and shares only the index with other calls, so a behaviour
\* holds one call, before or after the index is loaded.
RunTests(fetch, dataset, request_tests) ==
    /\ ~test_run.called
    /\ \E tests \in {load_tests(<<>>, fetch, Sheet, dataset)} :
       \E run \in {run_tests(Self, csv_file, pydantic_coerces, request_tests, tests)} :
           /\ normalized_name_to_ror_id' = run.svc.index
           /\ ror_id_to_record' = run.svc.records
           /\ data_loaded' = run.svc.data_loaded
           /\ builds' = IF run.built THEN builds + 1 ELSE builds
           /\ loaded_from' = IF run.built THEN run.branch ELSE loaded_from
           /\ test_run' = [called |-> TRUE, fetch |-> fetch, dataset |-> dataset,
                           request_tests |-> request_tests, tests |-> tests,
                           response |-> TestResult(run.results)]
    /\ UNCHANGED <<csv_file, pydantic_coerces, load_calls, results, last_lookup>>
    /\ UNCHANGED textVars
    /\ UNCHANGED fetchVars

Next ==
    \/ LoadData
    \/ \E q \in Queries : GetInstitutions(q)
    \/ \E q1, q2 \in Queries : PostInstitutions(q1, q2)
    \/ \E g \in {<<>>, <<<<"U", "L", "M">>>>} : Lookup(<<"U", "L", "M">>, g)
    \/ \E s \in {"missing", "unreadable"} : FileLost(s)

Spec == Init /\ [][Next]_vars

\* the loader alone, on every registry file and both builds of pydantic
InitLoad == TextIdle /\ ServiceInit(Files, BOOLEAN) /\ FetchIdle

NextLoad ==
    \/ LoadData
    \/ \E s \in {"missing", "unreadable"} : FileLost(s)

SpecLoad == InitLoad /\ [][NextLoad]_vars

\* lookups on the index of every file of the rows that share names
InitLookup == TextIdle /\ ServiceInit(FilesOver(LookupRows, MaxLookupRows), {FALSE}) /\ FetchIdle

NextLookup ==
    \/ LoadData
    \/ \E t \in LookupTokens, g \in GeonameLists : Lookup(t, g)

SpecLookup == InitLookup /\ [][NextLookup]_vars

\* queries on the index of the documented example, of no file and of a file
\* that cannot be read
InitQuery == TextIdle /\ ServiceInit(FilesOver(ExampleRows, MaxQueryRows), {FALSE}) /\ FetchIdle

NextQuery ==
    \/ LoadData
    \/ \E q \in ExampleQueries : GetInstitutions(q)

SpecQuery == InitQuery /\ [][NextQuery]_vars

\* evaluation runs, before and after the index is loaded
InitTests == TextIdle /\ ServiceInit(TestFiles, {FALSE}) /\ FetchIdle

NextTests ==
    \/ LoadData
    \/ \E f \in FetchOutcomes, d \in Datasets : RunTests(f, d, <<>>)
    \/ \E f \in {"ok", "failed"}, ts \in TestLists \ {<<>>} : RunTests(f, "d1", ts)

SpecTests == InitTests /\ [][NextTests]_vars

(***************************************************************************)
(* The string functions, each applied to every input of a bounded set      *)
(***************************************************************************)
ServiceIdle == ServiceInit({File("missing", Columns, <<>>)}, {FALSE})

InitNormalize == text \in NormInputs /\ out = <<>> /\ pc = "start" /\ ServiceIdle /\ FetchIdle

Normalize ==
    /\ pc = "start"
    /\ out' = normalize(text)
    /\ pc' = "normalized"
    /\ UNCHANGED text
    /\ UNCHANGED serviceVars
    /\ UNCHANGED fetchVars

NextNormalize == Normalize

SpecNormalize == InitNormalize /\ [][NextNormalize]_vars

InitTokenize == text \in TokInputs /\ out = <<>> /\ pc = "start" /\ ServiceIdle /\ FetchIdle

Tokenize ==
    /\ pc = "start"
    /\ out' = tokenize(text)
    /\ pc' = "tokenized"
    /\ UNCHANGED text
    /\ UNCHANGED serviceVars
    /\ UNCHANGED fetchVars

NextTokenize == Tokenize

SpecTokenize == InitTokenize /\ [][NextTokenize]_vars

(***************************************************************************)
(* download_ror_data.py, fetch_openalex_ids: the batches of ROR ids are    *)
(* handed to a thread pool; every call of process_batch is a thread of its *)
(* own steps, and the main thread takes the futures as they complete.      *)
(* A step is one request, one sleep-free stretch of local code, or one     *)
(* critical section of a lock.  A ROR id is a number.                      *)
(***************************************************************************)
\* the batch size of the batching loop
BatchSize == 90

\* the rate the RateLimiter is created with
Rate == 5

MaxBatches == 2
MaxRetries == 2
MaxWorkers == 2

Min(a, b) == IF a < b THEN a ELSE b

\* the batches of up to 90 ids, indexed from 0 as enumerate does
BatchesOf(ror_ids) ==
    LET n == Len(ror_ids)
        total == (n + BatchSize - 1) \div BatchSize
    IN  [k \in 0 .. total - 1 |->
            SubSeq(ror_ids, k * BatchSize + 1, Min((k + 1) * BatchSize, n))]

batches == BatchesOf(fetch_args.ror_ids)
total_batches == Cardinality(DOMAIN batches)

\* the ror and id fields of a result of the OpenAlex API
ResultRor(ror_id) == [prefix |-> "https://ror.org/", rest |-> ror_id]
ResultId(ror_id) == [prefix |-> "https://openalex.org/I", rest |-> ror_id]
NoUrl == [prefix |-> "", rest |-> 0]

\* what requests.get can give for a batch: a 200 with no result, with the
\* institution of the first id, or with a result that lacks its ror; a 429;
\* another status; an exception
ResponsesFor(batch) ==
    {[kind |-> "response", status_code |-> 200, results |-> <<>>],
     [kind |-> "response", status_code |-> 200,
      results |-> <<[id |-> ResultId(batch[1]), ror |-> ResultRor(batch[1])]>>],
     [kind |-> "response", status_code |-> 200,
      results |-> <<[id |-> ResultId(batch[1]), ror |-> NoUrl]>>],
     [kind |-> "response", status_code |-> 429, results |-> <<>>],
     [kind |-> "response", status_code |-> 500, results |-> <<>>],
     [kind |-> "exception", status_code |-> 0, results |-> <<>>]}

\* dict.update
Updated(dict, other) ==
    [k \in DOMAIN dict \cup DOMAIN other |->
        IF k \in DOMAIN other THEN other[k] ELSE dict[k]]

\* the results of a 200 response with both prefixes, keyed by bare ROR id
BatchResults(data) ==
    LET kept == {i \in DOMAIN data :
                    /\ data[i].ror.prefix = "https://ror.org/"
                    /\ data[i].id.prefix = "https://openalex.org/I"}
    IN  [r \in {data[i].ror.rest : i \in kept} |->
            [prefix |-> "I",
             rest |-> data[CHOOSE i \in kept : data[i].ror.rest = r].id.rest]]

\* the state at the submission of the batches
InitFetch ==
    /\ TextIdle /\ ServiceIdle
    /\ \E n \in {1, (MaxBatches - 1) * BatchSize + 1} :
       \E retries \in 1 .. MaxRetries, workers \in 1 .. MaxWorkers :
           /\ fetch_args = [ror_ids |-> [i \in 1 .. n |-> i], max_retries |-> retries,
                            max_workers |-> workers]
           /\ batch_call = [b \in DOMAIN BatchesOf([i \in 1 .. n |-> i]) |->
                               [at |-> "queued", attempts |-> 0, success |-> FALSE,
                                batch_results |-> <<>>, found_in_batch |-> 0]]
    /\ rate_limiter = [tokens |-> Rate]
    /\ counter = [count |-> 0]
    /\ failed_batches = <<>>
    /\ found_count = 0
    /\ ror_to_openalex = <<>>
    /\ executor = [at |-> "as_completed", taken |-> {}]

Running == {b \in DOMAIN batch_call : batch_call[b].at \notin {"queued", "done"}}

\* a free worker of the pool takes the oldest queued call
Start(b) ==
    /\ batch_call[b].at = "queued"
    /\ \A a \in DOMAIN batch_call : a < b => batch_call[a].at # "queued"
    /\ Cardinality(Running) < fetch_args.max_workers
    /\ batch_call' = [batch_call EXCEPT ![b].at = "while"]
    /\ UNCHANGED <<fetch_args, rate_limiter, counter, failed_batches, found_count,
                   ror_to_openalex, executor>>
    /\ UNCHANGED textVars
    /\ UNCHANGED serviceVars

\* while not success and attempts < max_retries
While(b) ==
    /\ batch_call[b].at = "while"
    /\ batch_call' = [batch_call EXCEPT ![b].at =
           IF ~batch_call[b].success /\ batch_call[b].attempts < fetch_args.max_retries
           THEN "wait_for_token" ELSE "done"]
    /\ UNCHANGED <<fetch_args, rate_limiter, counter, failed_batches, found_count,
                   ror_to_openalex, executor>>
    /\ UNCHANGED textVars
    /\ UNCHANGED serviceVars

\* RateLimiter.wait_for_token: a call that finds no token sleeps and looks again
WaitForToken(b) ==
    /\ batch_call[b].at = "wait_for_token"
    /\ rate_limiter.tokens >= 1
    /\ rate_limiter' = [tokens |-> rate_limiter.tokens - 1]
    /\ batch_call' = [batch_call EXCEPT ![b].at = "get"]
    /\ UNCHANGED <<fetch_args, counter, failed_batches, found_count, ror_to_openalex,
                   executor>>
    /\ UNCHANGED textVars
    /\ UNCHANGED serviceVars

\* a fifth of a second passes: one more token, up to the rate
Tick ==
    /\ executor.at = "as_completed"
    /\ rate_limiter.tokens < Rate
    /\ rate_limiter' = [tokens |-> Min(rate_limiter.tokens + 1, Rate)]
    /\ UNCHANGED <<fetch_args, counter, failed_batches, found_count, ror_to_openalex,
                   batch_call, executor>>
    /\ UNCHANGED textVars
    /\ UNCHANGED serviceVars

\* the attempt after a 429: counted, and nothing else
AfterRateLimit(call) ==
    [call EXCEPT !.attempts = call.attempts + 1, !.at = "while"]

\* the attempt after another status or an exception: counted, and the call
\* goes on to record the batch once max_retries is reached
AfterError(call, max_retries) ==
    [call EXCEPT !.attempts = call.attempts + 1,
                 !.at = IF call.attempts + 1 < max_retries THEN "while" ELSE "failed"]

\* the attempt after a 200
AfterSuccess(call, data) ==
    [call EXCEPT !.batch_results = Updated(call.batch_results, BatchResults(data)),
                 !.found_in_batch = Cardinality(DOMAIN BatchResults(data)),
                 !.success = TRUE,
                 !.at = "found_count"]

\* requests.get and the branch its outcome selects
Request(b, response) ==
    /\ batch_call[b].at = "get"
    /\ batch_call' = [batch_call EXCEPT ![b] =
           IF response.kind = "exception"
           THEN AfterError(batch_call[b], fetch_args.max_retries)
           ELSE IF response.status_code = 200
           THEN AfterSuccess(batch_call[b], response.results)
           ELSE IF response.status_code = 429
           THEN AfterRateLimit(batch_call[b])
           ELSE AfterError(batch_call[b], fetch_args.max_retries)]
    /\ UNCHANGED <<fetch_args, rate_limiter, counter, failed_batches, found_count,
                   ror_to_openalex, executor>>
    /\ UNCHANGED textVars
    /\ UNCHANGED serviceVars

\* with lock: found_count += found_in_batch
AddFound(b) ==
    /\ batch_call[b].at = "found_count"
    /\ found_count' = found_count + batch_call[b].found_in_batch
    /\ batch_call' = [batch_call EXCEPT ![b].at = "increment"]
    /\ UNCHANGED <<fetch_args, rate_limiter, counter, failed_batches, ror_to_openalex,
                   executor>>
    /\ UNCHANGED textVars
    /\ UNCHANGED serviceVars

\* counter.increment()
Increment(b) ==
    /\ batch_call[b].at = "increment"
    /\ counter' = [count |-> counter.count + 1]
    /\ batch_call' = [batch_call EXCEPT ![b].at = "while"]
    /\ UNCHANGED <<fetch_args, rate_limiter, failed_batches, found_count, ror_to_openalex,
                   executor>>
    /\ UNCHANGED textVars
    /\ UNCHANGED serviceVars

\* with lock: failed_batches.append(batch_idx)
AppendFailed(b) ==
    /\ batch_call[b].at = "failed"
    /\ failed_batches' = Append(failed_batches, b)
    /\ batch_call' = [batch_call EXCEPT ![b].at = "while"]
    /\ UNCHANGED <<fetch_args, rate_limiter, counter, found_count, ror_to_openalex,
                   executor>>
    /\ UNCHANGED textVars
    /\ UNCHANGED serviceVars

\* the main thread takes a completed future: process_batch catches what its
\* loop raises, so result() gives the batch results
TakeResult(b) ==
    /\ executor.at = "as_completed"
    /\ batch_call[b].at = "done"
    /\ b \notin executor.taken
    /\ ror_to_openalex' = Updated(ror_to_openalex, batch_call[b].batch_results)
    /\ executor' = [executor EXCEPT !.taken = executor.taken \cup {b}]
    /\ UNCHANGED <<fetch_args, rate_limiter, counter, failed_batches, found_count,
                   batch_call>>
    /\ UNCHANGED textVars
    /\ UNCHANGED serviceVars

\* every future is taken: the pool is shut down and the function returns
Return ==
    /\ executor.at = "as_completed"
    /\ executor.taken = DOMAIN batch_call
    /\ executor' = [executor EXCEPT !.at = "returned"]
    /\ UNCHANGED <<fetch_args, rate_limiter, counter, failed_batches, found_count,
                   ror_to_openalex, batch_call>>
    /\ UNCHANGED textVars
    /\ UNCHANGED serviceVars

NextFetch ==
    \/ \E b \in DOMAIN batch_call : Start(b)
    \/ \E b \in DOMAIN batch_call : While(b)
    \/ \E b \in DOMAIN batch_call : WaitForToken(b)
    \/ Tick
    \/ \E b \in DOMAIN batch_call : \E response \in ResponsesFor(batches[b]) :
           Request(b, response)
    \/ \E b \in DOMAIN batch_call : AddFound(b)
    \/ \E b \in DOMAIN batch_call : Increment(b)
    \/ \E b \in DOMAIN batch_call : AppendFailed(b)
    \/ \E b \in DOMAIN batch_call : TakeResult(b)
    \/ Return

SpecFetch == InitFetch /\ [][NextFetch]_vars

(***************************************************************************)
(* Properties of normalize (SpecNormalize)                                 *)
(***************************************************************************)
\* C1: normalize is idempotent: normalizing the output of normalize gives
\* that output again.
NormalizeIdempotent ==
    pc = "normalized" => normalize(out) = out

NoWhitespaceRun(s) ==
    \A i \in 1..(Len(s) - 1) : ~(IsSpace(s[i]) /\ IsSpace(s[i + 1]))

Trimmed(s) == s = <<>> \/ (~IsSpace(s[1]) /\ ~IsSpace(s[Len(s)]))

\* C2: the output of normalize has no run of two or more whitespace
\* characters and no leading or trailing whitespace.
NormalizeCollapsesWhitespace ==
    pc = "normalized" => NoWhitespaceRun(out) /\ Trimmed(out)

\* what is left of a word after steps 3 and 4 of normalize
Cleaned(w) == Unidecode(RemovePunctuation(w))

\* normalize's result when word i keeps its casing exactly when kept[i]
NormalizedKeeping(t, kept) ==
    LET words == SplitWords(t)
    IN  JoinWords([i \in DOMAIN words |->
                     Cleaned(IF kept[i] THEN words[i] ELSE Lower(words[i]))])

OnlyUppercaseLetters(w) == \A i \in DOMAIN w : IsUpperChar(w[i])

NoLowercaseButUppercase(w) ==
    /\ \E i \in DOMAIN w : IsUpperChar(w[i])
    /\ \A i \in DOMAIN w : ~IsLowerChar(w[i])

\* C19 as stated: a space-delimited word keeps its casing exactly when it
\* consists entirely of uppercase letters; every other word, also one that
\* mixes uppercase letters with digits or punctuation, is lowercased.
CasingKeptForUppercaseLetterWords ==
    pc = "normalized" =>
        out = NormalizedKeeping(text, [i \in DOMAIN SplitWords(text) |->
                                          OnlyUppercaseLetters(SplitWords(text)[i])])

\* C19 amended: a word keeps its casing exactly when it has an uppercase
\* letter and no lowercase letter, whatever digits and punctuation it has
\* beside; every other word is lowercased.
CasingKeptForWordsWithoutLowercase ==
    pc = "normalized" =>
        out = NormalizedKeeping(text, [i \in DOMAIN SplitWords(text) |->
                                          NoLowercaseButUppercase(SplitWords(text)[i])])

\* an uppercase letter with a digit keeps its case, beside a word that has
\* no uppercase letter
CasingKeptForWordsWithoutLowercaseWitness ==
    pc = "normalized" /\ text = <<"A", "1", " ", "a">> /\ out = <<"A", "1", " ", "a">>

(***************************************************************************)
(* Properties of tokenize (SpecTokenize)                                   *)
(***************************************************************************)
ExampleUniversityEU == <<"E", "x", "a", "m", "p", "l", "e", " ", "U", "n", "i", "v", "e", "r", "s", "i", "t", "y", " ", "(", "E", "U", ")">>

\* the parenthetical groups tokenize finds in its working text
ParentheticalsOf(t) == Range(FindParentheses(TokenizePhases(t).after_acronyms, 1))

\* C3: a parenthetical group with fewer than 3 characters inside gives no
\* token and is still cut out of the working text, so that no token holds
\* the group; tokenize("Example University (EU)") is ["Example University"].
ShortParentheticalExcised ==
    pc = "tokenized" =>
        /\ \A m \in ParentheticalsOf(text) :
               Len(m) < MinTokenLen =>
                   \A i \in DOMAIN out :
                       out[i] # m /\ ~IsSubstring(<<"(">> \o m \o <<")">>, out[i])
        /\ text = ExampleUniversityEU => out = <<<<"E", "x", "a", "m", "p", "l", "e", " ", "U", "n", "i", "v", "e", "r", "s", "i", "t", "y">>>>

\* C17: for every input string, every token returned by tokenize has length
\* at least 3.
TokensHaveThreeCharacters ==
    pc = "tokenized" => \A i \in DOMAIN out : Len(out[i]) >= 3

\* a part of 3 characters is a token, the part of 1 character before it is not
TokensHaveThreeCharactersWitness ==
    pc = "tokenized" /\ text = <<"a", ",", "a", "a", "a">> /\ out = <<<<"a", "a", "a">>>>

\* the word-bounded runs of 3 or more letters of A-Z in t, as pairs of the
\* first and the last position
AcronymSpans(t) ==
    {span \in (1..Len(t)) \X (1..Len(t)) :
        /\ span[2] - span[1] + 1 >= 3
        /\ \A k \in span[1]..span[2] : IsAsciiUpper(t[k])
        /\ (span[1] = 1 \/ ~IsWordChar(t[span[1] - 1]))
        /\ (span[2] = Len(t) \/ ~IsWordChar(t[span[2] + 1]))}

Acronyms(t) == {SubSeq(t, span[1], span[2]) : span \in AcronymSpans(t)}

NasaAmes == <<"N", "A", "S", "A", " ", "A", "m", "e", "s", " ", "R", "e", "s", "e", "a", "r", "c", "h", " ", "C", "e", "n", "t", "e", "r">>

\* C18: every word-bounded run of 3 or more uppercase letters of the query
\* is emitted as a token and every occurrence of its text is replaced by a
\* space in the working text, so that no token emitted after the acronyms
\* contains it; tokenize("NASA Ames Research Center") is
\* ["NASA", "Ames Research Center"].
AcronymsEmittedAndErased ==
    pc = "tokenized" =>
        LET n == Cardinality(AcronymSpans(text))
        IN  /\ Len(out) >= n
            /\ \A a \in Acronyms(text) :
                   /\ \E i \in 1..n : out[i] = a
                   /\ ~IsSubstring(a, TokenizePhases(text).after_acronyms)
                   /\ \A i \in (n + 1)..Len(out) : ~IsSubstring(a, out[i])
            /\ text = NasaAmes => out = <<<<"N", "A", "S", "A">>, <<"A", "m", "e", "s", " ", "R", "e", "s", "e", "a", "r", "c", "h", " ", "C", "e", "n", "t", "e", "r">>>>

\* the acronym occurs a second time inside a word, and is erased there too
AcronymsEmittedAndErasedWitness ==
    pc = "tokenized" /\ text = <<"A", "B", "C", " ", "a", "A", "B", "C", "a">> /\ out = <<<<"A", "B", "C">>, <<"a", " ", "a">>>>

\* the spans of a set in the order of their first positions
RECURSIVE InTextOrder(_)
InTextOrder(spans) ==
    IF spans = {} THEN <<>>
    ELSE LET first == CHOOSE s \in spans : \A u \in spans : s[1] <= u[1]
         IN  <<first>> \o InTextOrder(spans \ {first})

\* the acronyms of t, once per occurrence, from left to right
AcronymOccurrences(t) ==
    LET spans == InTextOrder(AcronymSpans(t))
    IN  [i \in DOMAIN spans |-> SubSeq(t, spans[i][1], spans[i][2])]

AtLeastThree(tokens) == SelectSeq(tokens, LAMBDA token : Len(token) >= 3)

\* the parenthetical groups of the working text, from left to right
ParentheticalOccurrences(t) ==
    AtLeastThree(FindParentheses(TokenizePhases(t).after_acronyms, 1))

\* the trimmed parts between the delimiters of the working text, from left
\* to right
RemainderOccurrences(t) ==
    LET parts == SplitDelimiters(TokenizePhases(t).after_parentheses)
    IN  AtLeastThree([i \in DOMAIN parts |-> Strip(parts[i])])

\* C20: tokenize returns all acronym tokens first, then all parenthetical
\* tokens, then the delimiter-split remainder tokens from left to right,
\* and a token that occurs several times is emitted once per occurrence.
TokensInPhaseOrderWithRepeats ==
    pc = "tokenized" =>
        out = AcronymOccurrences(text) \o ParentheticalOccurrences(text)
                  \o RemainderOccurrences(text)

\* an acronym found twice and a fragment found once in parentheses and twice
\* between delimiters, the first of them before the acronym in the text
TokensInPhaseOrderWithRepeatsWitness ==
    /\ pc = "tokenized" /\ text = <<"a", "b", "c", ",", " ", "A", "B", "C", " ", "(", "a", "b", "c", ")", " ", "A", "B", "C", ",", " ", "a", "b", "c">>
    /\ out = <<<<"A", "B", "C">>, <<"A", "B", "C">>, <<"a", "b", "c">>, <<"a", "b", "c">>, <<"a", "b", "c">>>>

(***************************************************************************)
(* Properties of lookup_institution (SpecLookup)                           *)
(***************************************************************************)
\* the last direct lookup ran on the loaded index, which is the present one
LookedUp == last_lookup.called /\ last_lookup.loaded

LookupKey == normalize(last_lookup.token)

LookupIds ==
    IF LookupKey \in DOMAIN normalized_name_to_ror_id
    THEN normalized_name_to_ror_id[LookupKey] ELSE <<>>

LookupCandidates == RecordsOf(ror_id_to_record, LookupIds)

\* the candidates whose display name contains a geoname, ignoring case
GeoCandidates ==
    SelectSeq(LookupCandidates,
              LAMBDA inst : \E i \in DOMAIN last_lookup.geonames :
                  IsSubstring(Lower(last_lookup.geonames[i]), Lower(inst.name)))

ReturnsTheOne ==
    /\ last_lookup.institutions = <<ror_id_to_record[LookupIds[1]]>>
    /\ last_lookup.is_unique

\* C4 as stated: a token whose normalized form is a key bound to exactly one
\* id gets exactly that institution and isUnique = true.
LookupUniqueKey ==
    (LookedUp /\ Len(LookupIds) = 1) => ReturnsTheOne

\* C4 amended: a token whose normalized form has at least 3 characters and
\* is a key bound to exactly one id gets exactly that institution and
\* isUnique = true.
LookupUniqueLongKey ==
    (LookedUp /\ Len(LookupIds) = 1 /\ Len(LookupKey) >= MinTokenLen) => ReturnsTheOne

LookupUniqueLongKeyWitness ==
    /\ LookedUp /\ Len(LookupIds) = 1 /\ Len(LookupKey) >= MinTokenLen
    /\ Len(last_lookup.institutions) = 1
    /\ last_lookup.is_unique

Unresolved ==
    last_lookup.geonames = <<>> \/ Len(GeoCandidates) # 1

ReturnsAll ==
    /\ last_lookup.institutions = LookupCandidates
    /\ Len(last_lookup.institutions) = Len(LookupIds)
    /\ ~last_lookup.is_unique

\* C5 as stated: for a key bound to two or more ids, with no geonames or a
\* geoname filter that leaves zero or several candidates, lookup returns
\* every candidate in the order of the ids, with isUnique = false.
LookupAmbiguousKey ==
    (LookedUp /\ Len(LookupIds) >= 2 /\ Unresolved) => ReturnsAll

\* C5 amended: the same for a normalized token of at least 3 characters.
LookupAmbiguousLongKey ==
    (LookedUp /\ Len(LookupIds) >= 2 /\ Unresolved /\ Len(LookupKey) >= MinTokenLen)
        => ReturnsAll

\* both cases of an unresolved lookup with geonames are seen, and the one
\* without geonames
LookupAmbiguousLongKeyWitness ==
    /\ LookedUp /\ Len(LookupIds) >= 2 /\ Len(LookupKey) >= MinTokenLen
    /\ last_lookup.geonames # <<>> /\ Len(GeoCandidates) >= 2
    /\ Len(last_lookup.institutions) >= 2
    /\ last_lookup.institutions[1].ror # last_lookup.institutions[2].ror

ReturnsTheGeoCandidate ==
    /\ last_lookup.institutions = GeoCandidates
    /\ last_lookup.is_unique

\* C6 as stated: for a key bound to two or more ids and a non-empty list of
\* geonames, when exactly one candidate's display name contains a geoname
\* (ignoring case), lookup returns that institution alone, isUnique = true.
LookupGeoResolved ==
    (LookedUp /\ Len(LookupIds) >= 2 /\ last_lookup.geonames # <<>>
        /\ Len(GeoCandidates) = 1) => ReturnsTheGeoCandidate

\* C6 amended: the same for a normalized token of at least 3 characters.
LookupGeoResolvedLongKey ==
    (LookedUp /\ Len(LookupIds) >= 2 /\ last_lookup.geonames # <<>>
        /\ Len(GeoCandidates) = 1 /\ Len(LookupKey) >= MinTokenLen)
        => ReturnsTheGeoCandidate

\* the geoname differs in case from its occurrence in the display name
LookupGeoResolvedLongKeyWitness ==
    /\ LookedUp /\ Len(LookupIds) >= 2 /\ Len(LookupKey) >= MinTokenLen
    /\ last_lookup.geonames = <<<<"U", "L", "M">>>>
    /\ Len(GeoCandidates) = 1
    /\ last_lookup.institutions = <<ror_id_to_record["r1"]>>
    /\ last_lookup.is_unique

(***************************************************************************)
(* Properties of the loaded index under the handlers (Spec)                *)
(***************************************************************************)
\* C7: once data_loaded is true, no call of load_data, process_query or
\* lookup_institution changes the name index or the record map.
IndexFrozenOnceLoaded ==
    [][data_loaded =>
          /\ normalized_name_to_ror_id' = normalized_name_to_ror_id
          /\ ror_id_to_record' = ror_id_to_record]_vars

\* load_data was called again, two queries ran and a lookup ran, all on the
\* loaded index, after the file had gone
IndexFrozenOnceLoadedWitness ==
    /\ data_loaded /\ normalized_name_to_ror_id # EmptyIndex
    /\ load_calls >= 2
    /\ Len(results) >= 2
    /\ last_lookup.called /\ last_lookup.loaded
    /\ loaded_from = "rows" /\ csv_file.status = "missing"

BranchStatus(branch) ==
    IF branch = "sample" THEN "missing"
    ELSE IF branch = "fallback" THEN "unreadable"
    ELSE "ok"

\* the index load_data builds from the file on a fresh service
FullyBuilt ==
    BuildIndex(Service(EmptyIndex, EmptyRecords, FALSE),
               File(BranchStatus(loaded_from), csv_file.columns, csv_file.rows),
               pydantic_coerces)

\* C8: however the process_query calls of the handlers interleave, also when
\* they start before the index is loaded, the index is built at most once
\* and every call returns the QueryResult it returns alone on the fully
\* built index.
QueriesSeeFullIndex ==
    /\ builds <= 1
    /\ results # <<>> =>
           /\ data_loaded
           /\ \A i \in DOMAIN results :
                  results[i] = QueryResult(FullyBuilt.index, FullyBuilt.records,
                                           results[i].query)

\* two queries ran, the first one before any load, and one found a match
QueriesSeeFullIndexWitness ==
    /\ builds = 1 /\ load_calls = 0
    /\ Len(results) >= 2
    /\ \E i \in DOMAIN results : results[i].matches # <<>>

\* the Match objects of one lookup, in the order of its institutions
MatchesOfLookup(token, lookup) ==
    [j \in DOMAIN lookup.institutions |->
        [token |-> token, institution |-> lookup.institutions[j],
         is_token_unique |-> lookup.is_unique]]

\* the matches of a result, put together token by token
TokenwiseMatches(result) ==
    LET tokens == tokenize(result.query)
    IN  Flatten([i \in DOMAIN tokens |->
                    MatchesOfLookup(tokens[i],
                        lookup_institution(normalized_name_to_ror_id, ror_id_to_record,
                                           tokens[i], result.geonames))])

\* C21: the matches of process_query(query) are the concatenation, over the
\* tokens of tokenize(query) in tokenizer order, of one Match per
\* institution that lookup returns for the token, each with that token and
\* that lookup's isUnique flag, without deduplication.
MatchesAreTokenwiseLookups ==
    \A i \in DOMAIN results : results[i].matches = TokenwiseMatches(results[i])

\* two tokens that each match the same two institutions give four matches
MatchesAreTokenwiseLookupsWitness ==
    \E i \in DOMAIN results :
        /\ results[i].query = <<"U", "L", "M", " ", "-", " ", "U", "L", "M">>
        /\ Len(results[i].matches) = 4
        /\ results[i].matches[1].institution = results[i].matches[3].institution
        /\ results[i].matches[2].institution = results[i].matches[4].institution
        /\ results[i].matches[1].institution # results[i].matches[2].institution
        /\ ~results[i].matches[1].is_token_unique

(***************************************************************************)
(* Properties of the index built by load_data (SpecLoad)                   *)
(***************************************************************************)
NoDuplicate(ids) ==
    \A i, j \in DOMAIN ids : i # j => ids[i] # ids[j]

\* the display and alternate names load_data can be given
RowNames(row, columns) ==
    {Cell(row, "display_name", columns)} \cup Range(AlternateNames(row, columns))

SourceNames ==
    UNION {RowNames(csv_file.rows[i], csv_file.columns) : i \in DOMAIN csv_file.rows}
        \cup {SampleInstitution.name, FallbackInstitution.name}
        \cup Range(SampleInstitution.alternate_names)
        \cup Range(FallbackInstitution.alternate_names)

\* C9: every key of the index maps to a non-empty list of ids without a
\* repeated id, and is the normalized form of a display or alternate name
\* of at least 3 characters.
IndexWellFormed ==
    \A k \in DOMAIN normalized_name_to_ror_id :
        /\ normalized_name_to_ror_id[k] # <<>>
        /\ NoDuplicate(normalized_name_to_ror_id[k])
        /\ \E name \in SourceNames : Len(name) >= MinNameLen /\ normalize(name) = k

\* a key shared by two institutions, one of which has it from two of its
\* names, beside a name of 2 characters that is not a key
IndexWellFormedWitness ==
    /\ data_loaded
    /\ csv_file.rows = <<RowUlm, RowBonn>>
    /\ <<"u", "l", "m", " ", "U">> \in DOMAIN normalized_name_to_ror_id
    /\ normalized_name_to_ror_id[<<"u", "l", "m", " ", "U">>] = <<"r1", "r2">>
    /\ <<"U", "U">> \notin DOMAIN normalized_name_to_ror_id

WellFormed(row, columns) ==
    /\ Cell(row, "id", columns) \notin {None, NaN, ""}
    /\ Cell(row, "openalex_id", columns) \notin {None, NaN, ""}
    /\ Cell(row, "display_name", columns) \notin {NoneStr, NaNStr, <<>>}

WellFormedRows ==
    SelectSeq(csv_file.rows, LAMBDA row : WellFormed(row, csv_file.columns))

\* C10: a row without registry id, external id or display name, or whose
\* processing fails, adds no record and no index entry and does not stop
\* the load: the index and the records after load_data are those built from
\* the well-formed rows alone, in their order.
LoadSkipsMalformedRows ==
    loaded_from = "rows" =>
        LET clean == ProcessRows([index |-> EmptyIndex, records |-> EmptyRecords],
                                 WellFormedRows, csv_file.columns, pydantic_coerces)
        IN  /\ normalized_name_to_ror_id = clean.index
            /\ ror_id_to_record = clean.records

(***************************************************************************)
(* Properties of the placeholder index and of the example (SpecQuery)      *)
(***************************************************************************)
\* the placeholder load_data writes for a file in the given state
PlaceholderFor(status) ==
    IF status = "missing"
    THEN [ror_id |-> "sample123", inst |-> SampleInstitution,
          keys |-> {<<"s", "a", "m", "p", "l", "e", " ", "u", "n", "i", "v", "e", "r", "s", "i", "t", "y">>, <<"s", "a", "m", "p", "l", "e", " ", "u", "n", "i", "v">>}]
    ELSE [ror_id |-> "fallback123", inst |-> FallbackInstitution,
          keys |-> {<<"f", "a", "l", "l", "b", "a", "c", "k", " ", "u", "n", "i", "v", "e", "r", "s", "i", "t", "y">>, <<"f", "a", "l", "l", "b", "a", "c", "k", " ", "u", "n", "i", "v">>}]

\* load_data has run, directly or under a query
LoadAttempted == load_calls > 0 \/ results # <<>>

\* C11: when the registry file is missing or reading it raises, load_data
\* returns with data_loaded true and an index that holds the one placeholder
\* institution only, and every later process_query returns a QueryResult
\* (whose matches can only be that placeholder).
PlaceholderIndexOnly ==
    (csv_file.status # "ok" /\ LoadAttempted) =>
        LET p == PlaceholderFor(csv_file.status)
        IN  /\ data_loaded
            /\ DOMAIN ror_id_to_record = {p.ror_id}
            /\ ror_id_to_record[p.ror_id] = p.inst
            /\ DOMAIN normalized_name_to_ror_id = p.keys
            /\ \A k \in p.keys : normalized_name_to_ror_id[k] = <<p.ror_id>>
            /\ \A i \in DOMAIN results :
                   /\ results[i].query \in ExampleQueries
                   /\ \A j \in DOMAIN results[i].matches :
                          /\ results[i].matches[j].institution = p.inst
                          /\ results[i].matches[j].is_token_unique

\* a query on the fallback index matched the placeholder, after a query
\* that matched nothing
PlaceholderIndexOnlyWitness ==
    /\ csv_file.status = "unreadable" /\ data_loaded /\ loaded_from = "fallback"
    /\ Len(results) = 2
    /\ results[1].matches = <<>>
    /\ Len(results[2].matches) = 1
    /\ results[2].matches[1].token = <<"F", "a", "l", "l", "b", "a", "c", "k", " ", "U", "n", "i", "v", "e", "r", "s", "i", "t", "y">>
    /\ results[2].matches[1].institution.id = "https://openalex.org/I987654321"

(***************************************************************************)
(* Properties of the evaluation run (SpecTests)                            *)
(***************************************************************************)
Meta == test_run.response.meta

ReportsNothing ==
    /\ test_run.response.results = <<>>
    /\ Meta.total = 0 /\ Meta.passing = 0 /\ Meta.failing = 0
    /\ Meta.precision.num = 0 /\ Meta.recall.num = 0
    /\ Meta.percentage_passing.num = 0

\* C12 as stated: when fetching the labeled test data fails, the evaluation
\* run reports zero tests (total, passing and failing 0) and precision,
\* recall and percentage passing 0.
FetchFailureReportsNothing ==
    (test_run.called /\ test_run.fetch = "failed") => ReportsNothing

\* C12 amended: the same for a request that carries no tests of its own.
FetchFailureWithoutRequestTests ==
    (test_run.called /\ test_run.fetch = "failed" /\ test_run.request_tests = <<>>)
        => ReportsNothing

\* the fetch failed for a dataset the sheet has tests of, and nothing ran
FetchFailureWithoutRequestTestsWitness ==
    /\ test_run.called /\ test_run.fetch = "failed" /\ test_run.request_tests = <<>>
    /\ test_run.dataset = "d1"
    /\ Meta.total = 0 /\ Meta.precision = Zero /\ Meta.recall = Zero
    /\ ~data_loaded

\* the test specifications the last run went through
\* the test specifications the last run went through
ExampleQuery == <<"E", "x", "a", "m", "p", "l", "e", " ", "U", "n", "i", "v", "e", "r", "s", "i", "t", "y", ",", " ", "S", "p", "r", "i", "n", "g", "f", "i", "e", "l", "d">>

\* the index was built from the single row of the example
ExampleIndexBuilt ==
    csv_file = File("ok", Columns, <<RowExample>>) /\ data_loaded

\* C15: on the index built from the single row {id "abc123", openalexId
\* "I1", displayName "Example University", acronyms "EU"}, with no geonames
\* extracted, process_query("Example University, Springfield") returns
\* exactly one Match, on the token "Example University", with isTokenUnique
\* true and institution id "I1"; the acronym "EU" is not an index key.
ExampleQueryMatchesOnce ==
    ExampleIndexBuilt =>
        /\ <<"E", "U">> \notin DOMAIN normalized_name_to_ror_id
        /\ \A i \in DOMAIN results :
               (results[i].query = ExampleQuery /\ results[i].geonames = <<>>) =>
                   /\ Len(results[i].matches) = 1
                   /\ results[i].matches[1].token = <<"E", "x", "a", "m", "p", "l", "e", " ", "U", "n", "i", "v", "e", "r", "s", "i", "t", "y">>
                   /\ results[i].matches[1].is_token_unique
                   /\ results[i].matches[1].institution.id = "I1"

\* the query of the example was answered on the index of the example
ExampleQueryMatchesOnceWitness ==
    /\ ExampleIndexBuilt
    /\ DOMAIN normalized_name_to_ror_id = {<<"e", "x", "a", "m", "p", "l", "e", " ", "u", "n", "i", "v", "e", "r", "s", "i", "t", "y">>}
    /\ \E i \in DOMAIN results :
           /\ results[i].query = ExampleQuery /\ results[i].geonames = <<>>
           /\ Len(results[i].matches) = 1
           /\ results[i].matches[1].institution.ror = RorUrl("abc123")

TestsRun ==
    IF test_run.request_tests # <<>> THEN test_run.request_tests ELSE test_run.tests

Outcomes == test_run.response.results

\* the matches process_query gives for the query of test i
ProducedMatches(i) ==
    QueryResult(normalized_name_to_ror_id, ror_id_to_record,
                Get(TestsRun[i], "query", <<>>)).matches

ExpectedEntitiesOf(i) == Get(TestsRun[i], "expected_entities", <<>>)

HasId(entity) == "id" \in DOMAIN entity /\ entity.id \notin {"", None}

\* the positions of the expected entities of test i that have an id
WithId(i) == {k \in DOMAIN ExpectedEntitiesOf(i) : HasId(ExpectedEntitiesOf(i)[k])}

ExpectedIdSet(i) == {ExpectedEntitiesOf(i)[k].id : k \in WithId(i)}

FoundIdSet(i) == {ProducedMatches(i)[k].institution.id : k \in DOMAIN ProducedMatches(i)}

\* C13: for every test case, is_passing is true exactly when every expected
\* id occurs among the found ids and the number of produced matches equals
\* the number of expected ids, duplicates counted on both sides.
PassingIffAllFoundAndCountsEqual ==
    test_run.called =>
        /\ Len(Outcomes) = Len(TestsRun)
        /\ \A i \in DOMAIN Outcomes :
               Outcomes[i].is_passing <=>
                   /\ ExpectedIdSet(i) \subseteq FoundIdSet(i)
                   /\ Len(ProducedMatches(i)) = Cardinality(WithId(i))

\* one test fails although its expected id was found, because it was found
\* twice; another passes with an id expected twice and found twice
PassingIffAllFoundAndCountsEqualWitness ==
    /\ test_run.called /\ Len(Outcomes) = 2
    /\ ~Outcomes[1].is_passing
    /\ ExpectedIdSet(1) = {"I1"} /\ FoundIdSet(1) = {"I1"}
    /\ Len(ProducedMatches(1)) = 2 /\ Cardinality(WithId(1)) = 1
    /\ Outcomes[2].is_passing
    /\ Len(ProducedMatches(2)) = 2 /\ Cardinality(WithId(2)) = 2

\* the summed sizes of one of the three lists over the first n outcomes
RECURSIVE SumTo(_, _)
SumTo(n, list) ==
    IF n = 0 THEN 0 ELSE Len(Outcomes[n].results[list]) + SumTo(n - 1, list)

TP == SumTo(Len(Outcomes), "correct")
FP == SumTo(Len(Outcomes), "overmatched")
FN == SumTo(Len(Outcomes), "undermatched")

\* q is n / d, and 0 when d is 0
IsQuotientOrZero(q, n, d) ==
    IF d = 0 THEN q.num = 0 ELSE q.den > 0 /\ q.num * d = n * q.den

\* C14: calculate_metrics returns precision = TP / (TP + FP) and recall =
\* TP / (TP + FN), TP, FP and FN being the summed sizes of the correct,
\* overmatched and undermatched lists, and 0 for a metric whose denominator
\* is 0, the empty list of outcomes included.
MetricsAreQuotients ==
    test_run.called =>
        /\ IsQuotientOrZero(Meta.precision, TP, TP + FP)
        /\ IsQuotientOrZero(Meta.recall, TP, TP + FN)

\* a run with correct, overmatched and undermatched entries at once
MetricsAreQuotientsWitness ==
    /\ test_run.called
    /\ TP > 0 /\ FP > 0 /\ FN > 0
    /\ Meta.precision.num = TP /\ Meta.precision.den = TP + FP
    /\ Meta.recall.num = TP /\ Meta.recall.den = TP + FN

\* how often an id occurs among the found ids and among the expected ids
CountFound(i, id) ==
    Cardinality({k \in DOMAIN ProducedMatches(i) : ProducedMatches(i)[k].institution.id = id})

CountExpected(i, id) ==
    Cardinality({k \in WithId(i) : ExpectedEntitiesOf(i)[k].id = id})

\* the query of test i produced one match for each expected id and no other
ExactlyExpected(i) ==
    \A id \in ExpectedIdSet(i) \cup FoundIdSet(i) : CountFound(i, id) = CountExpected(i, id)

PassesCleanly(i) ==
    /\ Outcomes[i].is_passing
    /\ Outcomes[i].results.correct = ProducedMatches(i)
    /\ Outcomes[i].results.overmatched = <<>>
    /\ Outcomes[i].results.undermatched = <<>>

IsOne(q) == q.den > 0 /\ q.num = q.den

\* C16 as stated: a test whose query produces exactly one match for each
\* expected id and no other match passes, with every match in correct and
\* nothing overmatched or undermatched, and a run of such tests only has
\* precision 1 and recall 1.
ExactTestsScorePerfect ==
    test_run.called =>
        /\ \A i \in DOMAIN Outcomes : ExactlyExpected(i) => PassesCleanly(i)
        /\ (Outcomes # <<>> /\ \A i \in DOMAIN Outcomes : ExactlyExpected(i))
               => IsOne(Meta.precision) /\ IsOne(Meta.recall)

\* C16 amended: the same, the run having at least one expected id.
ExactTestsWithExpectationsScorePerfect ==
    test_run.called =>
        /\ \A i \in DOMAIN Outcomes : ExactlyExpected(i) => PassesCleanly(i)
        /\ (/\ \A i \in DOMAIN Outcomes : ExactlyExpected(i)
            /\ \E i \in DOMAIN Outcomes : ExpectedIdSet(i) # {})
               => IsOne(Meta.precision) /\ IsOne(Meta.recall)

\* a test with an id expected twice and found twice, beside a test that
\* expects nothing and finds nothing
ExactTestsWithExpectationsScorePerfectWitness ==
    /\ test_run.called /\ Len(Outcomes) = 2
    /\ ExactlyExpected(1) /\ ExactlyExpected(2)
    /\ Len(Outcomes[1].results.correct) = 2
    /\ ExpectedIdSet(2) = {} /\ ProducedMatches(2) = <<>>
    /\ IsOne(Meta.precision) /\ IsOne(Meta.recall)

\* the entries of seq at the positions of keep, in their order
RECURSIVE Restricted(_, _, _)
Restricted(seq, keep, n) ==
    IF n = 0 THEN <<>>
    ELSE Restricted(seq, keep, n - 1) \o (IF n \in keep THEN <<seq[n]>> ELSE <<>>)

\* the positions of the produced matches of test i whose id is expected
ExpectedPositions(i) ==
    {k \in DOMAIN ProducedMatches(i) :
        ProducedMatches(i)[k].institution.id \in ExpectedIdSet(i)}

\* C22: in every outcome each produced match is in exactly one of correct
\* and overmatched, in correct exactly when its institution id is an
\* expected id, in the order of the matches; the two lists together are as
\* long as the list of matches.
MatchesPartitioned ==
    test_run.called =>
        \A i \in DOMAIN Outcomes :
            LET matches == ProducedMatches(i)
                all == DOMAIN matches
            IN  /\ Outcomes[i].results.correct =
                       Restricted(matches, ExpectedPositions(i), Len(matches))
                /\ Outcomes[i].results.overmatched =
                       Restricted(matches, all \ ExpectedPositions(i), Len(matches))
                /\ Len(Outcomes[i].results.correct) + Len(Outcomes[i].results.overmatched)
                       = Len(matches)

\* four matches, the first and third correct, the second and fourth not
MatchesPartitionedWitness ==
    /\ test_run.called /\ Len(Outcomes) >= 1
    /\ Len(ProducedMatches(1)) = 4
    /\ ExpectedPositions(1) = {1, 3}
    /\ Outcomes[1].results.correct = <<ProducedMatches(1)[1], ProducedMatches(1)[3]>>
    /\ Outcomes[1].results.overmatched = <<ProducedMatches(1)[2], ProducedMatches(1)[4]>>

\* the Institution with the fields of an expected entity, '' and [] standing
\* for the fields it lacks
FromExpectation(entity) ==
    [id |-> entity.id,
     name |-> IF "name" \in DOMAIN entity THEN entity.name ELSE <<>>,
     ror |-> IF "ror" \in DOMAIN entity THEN entity.ror ELSE <<>>,
     alternate_names |->
         IF "alternate_names" \in DOMAIN entity THEN entity.alternate_names ELSE <<>>]

\* the positions of the expected entities of test i with an id not found
MissingPositions(i) ==
    {k \in WithId(i) : ExpectedEntitiesOf(i)[k].id \notin FoundIdSet(i)}

\* C23: undermatched holds one Institution, built from the expectation's
\* own fields, for each expected entity with a non-empty id that is not
\* among the ids of the produced matches, and nothing else.
UndermatchedAreMissingExpectations ==
    test_run.called =>
        \A i \in DOMAIN Outcomes :
            LET entities == ExpectedEntitiesOf(i)
                missing == Restricted(entities, MissingPositions(i), Len(entities))
            IN  Outcomes[i].results.undermatched =
                    [k \in DOMAIN missing |-> FromExpectation(missing[k])]

\* an entity expected twice and not found is listed twice with its fields,
\* and an entity given by its id alone is listed with empty fields
UndermatchedAreMissingExpectationsWitness ==
    /\ test_run.called /\ Len(Outcomes) = 2
    /\ Len(Outcomes[1].results.undermatched) = 2
    /\ Outcomes[1].results.undermatched[1] = Outcomes[1].results.undermatched[2]
    /\ Outcomes[1].results.undermatched[1].name = <<"U", "l", "m", " ", "U">>
    /\ Outcomes[1].results.undermatched[1].alternate_names = <<<<"U", "L", "M">>>>
    /\ Len(Outcomes[2].results.undermatched) = 1
    /\ Outcomes[2].results.undermatched[1].id = "I2"
    /\ Outcomes[2].results.undermatched[1].name = <<>>

\* C24 as stated: whenever an outcome has is_passing true, its overmatched
\* list and its undermatched list are both empty.
PassingHasNoMismatch ==
    test_run.called =>
        \A i \in DOMAIN Outcomes :
            Outcomes[i].is_passing =>
                /\ Outcomes[i].results.overmatched = <<>>
                /\ Outcomes[i].results.undermatched = <<>>

\* no id is expected twice in test i
ExpectedIdsDistinct(i) == Cardinality(ExpectedIdSet(i)) = Cardinality(WithId(i))

\* C24: whenever an outcome has is_passing true, its undermatched list is
\* empty, and its overmatched list is empty when no id is expected twice.
PassingHasNoMismatchOfDistinctIds ==
    test_run.called =>
        \A i \in DOMAIN Outcomes :
            Outcomes[i].is_passing =>
                /\ Outcomes[i].results.undermatched = <<>>
                /\ ExpectedIdsDistinct(i) => Outcomes[i].results.overmatched = <<>>

\* one passing test whose only expected id is the only id found, and one
\* passing test that expects an id twice and finds it beside another
PassingHasNoMismatchOfDistinctIdsWitness ==
    /\ test_run.called /\ Len(Outcomes) = 2
    /\ Outcomes[1].is_passing /\ ExpectedIdsDistinct(1)
    /\ Len(Outcomes[1].results.correct) = 1
    /\ Outcomes[1].results.overmatched = <<>>
    /\ Outcomes[2].is_passing /\ ~ExpectedIdsDistinct(2)
    /\ Len(Outcomes[2].results.overmatched) = 1

(***************************************************************************)
(* Properties of fetch_openalex_ids (SpecFetch)                            *)
(***************************************************************************)
\* the batches whose attempts reached max_retries without a 200
Exhausted ==
    {b \in DOMAIN batch_call :
        /\ ~batch_call[b].success
        /\ batch_call[b].attempts >= fetch_args.max_retries}

\* C25: under any interleaving of the worker threads, every batch whose
\* attempts reach max_retries without a successful response has its index in
\* failed_batches when fetch_openalex_ids returns, whatever mix of 429
\* responses, other statuses and exceptions caused the failures.
ExhaustedBatchesRecorded ==
    executor.at = "returned" => \A b \in Exhausted : b \in Range(failed_batches)

====
